---------------------------- MODULE Spec2Model ----------------------------
(***************************************************************************)
(* Camp Half-Blood web portal (src/webserver.py): the link-code -> session *)
(* exchange of CampHalfBloodServer.                                        *)
(*                                                                         *)
(* Conventions.                                                            *)
(*  - A Python str is a sequence of one-character strings, so that         *)
(*    str.upper() and str.strip() are computed and not assumed.            *)
(*  - datetime values are whole minutes since the server started; `now`    *)
(*    is the wall clock read by datetime.now().                            *)
(*  - secrets.token_hex(3) draws a link code from a 24-bit space and the   *)
(*    code never compares the draw with codes it has handed out: the draw  *)
(*    is any value of Codes.  secrets.token_hex(32) draws a session token  *)
(*    from a 256-bit space: the draw is taken to be fresh (the n-th token  *)
(*    is TokenOf(n)), and a client can present only tokens already minted  *)
(*    or a value that is never minted (BogusToken).                        *)
(*  - The asyncio event loop runs one callback at a time: a handler is     *)
(*    atomic between two awaits.  _api_verify_link_code has one await      *)
(*    (request.json(), line 470), where it learns the body; every other    *)
(*    handler has none (DatabaseManager's calls block the loop).           *)
(*  - A handler is a function of the state and of the request: its         *)
(*    response is an operator (LinkResponse, CheckResponse, ...) and its   *)
(*    effect on the state is the action of the same name.                  *)
(***************************************************************************)
EXTENDS Integers, Sequences, FiniteSets, TLC

VARIABLES
    now,                 \* datetime.now(), in minutes
    pending_link_codes,  \* self.pending_link_codes: code -> link data
    sessions,            \* self.sessions: token -> session data
    minted,              \* number of session tokens drawn so far
    reading,             \* POST /api/auth/link handlers suspended in request.json()
    db,                  \* the module's db object: "none" (db = None) or "manager"
    mail,                \* the rows of the mail table: mail_id -> row
    hist                 \* what the holders of link codes have seen (no program state)

vars == <<now, pending_link_codes, sessions, minted, reading, db, mail, hist>>

---------------------------------------------------------------------------
(* Bounds of the model *)

\* link-code lifetimes the clock advances by, before and after one session
\* lifetime
MaxTicks == 1
\* session tokens minted in one behaviour
MaxTokens == 2
\* POST /api/auth/link handlers that may be suspended together
NumReqs == 1
\* POST /api/auth/link handlers that race for one code
RaceReqs == 3
\* calls of generate_link_code in one behaviour that counts them
MaxCalls == 3

---------------------------------------------------------------------------
(* Program constants *)

\* timedelta(minutes=10), line 362
LinkCodeMinutes == 10
\* timedelta(days=7), line 392, in minutes
SessionMinutes == 7 * 24 * 60
\* 'expires_in': 7 * 24 * 60 * 60, line 491
ExpiresInSeconds == 7 * 24 * 60 * 60

---------------------------------------------------------------------------
(* Python str, as sequences of characters *)

LowerLetters ==
    <<"a","b","c","d","e","f","g","h","i","j","k","l","m",
      "n","o","p","q","r","s","t","u","v","w","x","y","z">>

UpperLetters ==
    <<"A","B","C","D","E","F","G","H","I","J","K","L","M",
      "N","O","P","Q","R","S","T","U","V","W","X","Y","Z">>

\* the upper-case letter of each lower-case one
UpperOf ==
    [ch \in {LowerLetters[i] : i \in 1..Len(LowerLetters)} |->
        UpperLetters[CHOOSE i \in 1..Len(LowerLetters) : LowerLetters[i] = ch]]

UpperChar(ch) == IF ch \in DOMAIN UpperOf THEN UpperOf[ch] ELSE ch

\* str.upper()
StrUpper(s) == [i \in 1..Len(s) |-> UpperChar(s[i])]

IsSpace(ch) == ch \in {" ", "\t", "\n", "\r"}

RECURSIVE LStrip(_)
LStrip(s) ==
    IF s = <<>> THEN <<>>
    ELSE IF IsSpace(Head(s)) THEN LStrip(Tail(s)) ELSE s

RECURSIVE RStrip(_)
RStrip(s) ==
    IF s = <<>> THEN <<>>
    ELSE IF IsSpace(s[Len(s)]) THEN RStrip(SubSeq(s, 1, Len(s) - 1)) ELSE s

\* a strip that trims the left end only
StrStrip_LeftOnly(s) == LStrip(s)

\* str.strip()
StrStrip(s) == RStrip(LStrip(s))

---------------------------------------------------------------------------
(* Inputs *)

\* the (discord_id, discord_username) pairs the bot calls generate_link_code with
DiscordIds == {1, 2}

UsernameOf(discord_id) == IF discord_id = 1 THEN "rex" ELSE "ann"

\* values secrets.token_hex(3).upper() can return
Codes == { <<"A","B","1","2","C","D">>, <<"0","F","3","E","9","A">> }

\* the n-th value of secrets.token_hex(32)
TokenOf(n) == <<"tok", ToString(n)>>

\* a token value the server never mints
BogusToken == <<"bogus">>

\* request.headers.get('X-Session-Token'): None, or a str
NoHeader == [present |-> FALSE, value |-> <<>>]
Header(v) == [present |-> TRUE, value |-> v]

\* the X-Session-Token headers a client can send
TokenHeaders ==
    {NoHeader, Header(<<>>), Header(BogusToken)}
        \cup {Header(TokenOf(n)) : n \in 1..minted}

\* of these, one header without a session and every token minted so far:
\* the headers that lead a handler to different successor states
SentHeaders ==
    {Header(BogusToken)} \cup {Header(TokenOf(n)) : n \in 1..minted}

\* the "code" strings a client sends
CodeStrings ==
    Codes \cup { <<>>, <<" ">>, <<" ","a","b","1","2","c","d"," ">> }

\* request bodies of POST /api/auth/link
LinkBodies ==
    { [kind |-> "invalid_json"],     \* not JSON at all
      [kind |-> "not_object"],       \* JSON, but a list, a number, null ...
      [kind |-> "no_code"],          \* an object without "code"
      [kind |-> "code_not_str"] }    \* "code" is a number, null, a list ...
        \cup { [kind |-> "code", code |-> s] : s \in CodeStrings }

---------------------------------------------------------------------------
(* dict helpers *)

DictDel(d, keys) == [k \in (DOMAIN d) \ keys |-> d[k]]

DictPut(d, key, val) ==
    [k \in (DOMAIN d) \cup {key} |-> IF k = key THEN val ELSE d[k]]

EmptyDict == [k \in {} |-> 0]

---------------------------------------------------------------------------
(* Responses *)

\* web.json_response(body, status=status), and the web.HTTPException that
\* _cors_middleware catches: both leave with the Access-Control-* headers
JsonResponse(status, body) ==
    [status |-> status, body |-> body, cors |-> TRUE]

\* an exception that is not a web.HTTPException leaves the handler and
\* _cors_middleware (which catches web.HTTPException only): aiohttp answers
\* 500 Internal Server Error itself, without the Access-Control-* headers
ServerError ==
    [status |-> 500, body |-> [text |-> "500 Internal Server Error"], cors |-> FALSE]

---------------------------------------------------------------------------
(* Link codes and sessions *)

\* a cleanup that finds no code expired
CleanupExpiredCodes_KeepsAll(p, t) == p

\* _cleanup_expired_codes, on the dict p at time t
CleanupExpiredCodes(p, t) ==
    DictDel(p, {c \in DOMAIN p : p[c].expires_at < t})

\* _cleanup_expired_sessions, on the dict s at time t
CleanupExpiredSessions(s, t) ==
    DictDel(s, {k \in DOMAIN s : s[k].expires_at < t})

\* a generate_link_code that leaves the user's existing codes in the dict
RemoveCodesOf_KeepsOld(p, discord_id) == p

\* the loop of generate_link_code that removes the user's existing codes
RemoveCodesOf(p, discord_id) ==
    DictDel(p, {c \in DOMAIN p : p[c].discord_id = discord_id})

\* the dict entry generate_link_code stores at time t
LinkData(discord_id, discord_username, t) ==
    [discord_id |-> discord_id,
     discord_username |-> discord_username,
     created_at |-> t,
     expires_at |-> t + LinkCodeMinutes]

\* pending_link_codes after generate_link_code has drawn `code`
PendingAfterGenerate(p, discord_id, discord_username, code, t) ==
    DictPut(RemoveCodesOf(CleanupExpiredCodes(p, t), discord_id),
            code, LinkData(discord_id, discord_username, t))

\* the dict entry _create_session stores at time t
SessionData(discord_id, discord_username, t) ==
    [discord_id |-> discord_id,
     discord_username |-> discord_username,
     created_at |-> t,
     expires_at |-> t + SessionMinutes]

\* a _create_session that ends the sessions the identity already holds
SessionsAfterCreate_OnePerIdentity(s, token, discord_id, discord_username, t) ==
    DictPut(DictDel(CleanupExpiredSessions(s, t),
                    {k \in DOMAIN s : s[k].discord_id = discord_id}),
            token, SessionData(discord_id, discord_username, t))

\* sessions after _create_session has drawn `token`
SessionsAfterCreate(s, token, discord_id, discord_username, t) ==
    DictPut(CleanupExpiredSessions(s, t), token,
            SessionData(discord_id, discord_username, t))

\* _get_session: "if not token" is false (the header is there and not "")
HasToken(hdr) == hdr.present /\ hdr.value # <<>>

\* a lookup that leaves out the comparison with expires_at
SessionFound_NoExpiry(s, hdr, t) ==
    HasToken(hdr) /\ hdr.value \in DOMAIN s

\* _get_session returns a session (and not None)
SessionFound(s, hdr, t) ==
    /\ HasToken(hdr)
    /\ hdr.value \in DOMAIN s
    /\ ~(s[hdr.value].expires_at < t)

\* a lookup that sweeps every expired session, as _create_session does
SessionsAfterGet_Sweeps(s, hdr, t) ==
    IF HasToken(hdr) THEN CleanupExpiredSessions(s, t) ELSE s

\* a lookup with a sliding expiry: a session that is found is renewed
SessionsAfterGet_Renews(s, hdr, t) ==
    IF HasToken(hdr) /\ hdr.value \in DOMAIN s
    THEN IF s[hdr.value].expires_at < t
         THEN DictDel(s, {hdr.value})
         ELSE [s EXCEPT ![hdr.value].expires_at = t + SessionMinutes]
    ELSE s

\* sessions after _get_session: an expired entry is deleted
SessionsAfterGet(s, hdr, t) ==
    IF HasToken(hdr) /\ hdr.value \in DOMAIN s /\ s[hdr.value].expires_at < t
    THEN DictDel(s, {hdr.value})
    ELSE s

---------------------------------------------------------------------------
(* POST /api/auth/link: _api_verify_link_code *)

\* data.get('code', '').upper().strip(), for a body on which it raises nothing
LinkCodeOf(body) ==
    IF body.kind = "code" THEN StrStrip(StrUpper(body.code)) ELSE <<>>

\* request.json() raises json.JSONDecodeError
RaisesJSONDecodeError(body) == body.kind = "invalid_json"

\* data.get or .upper() raises AttributeError, which no except clause takes
RaisesAttributeError(body) == body.kind \in {"not_object", "code_not_str"}

\* "code not in self.pending_link_codes" is false, after the cleanup at time t
CodeIsPending(p, code, t) == code \in DOMAIN CleanupExpiredCodes(p, t)

\* the handler reaches self.pending_link_codes.pop(code)
LinkSucceeds(p, body, t) ==
    /\ ~RaisesJSONDecodeError(body)
    /\ ~RaisesAttributeError(body)
    /\ LinkCodeOf(body) # <<>>
    /\ CodeIsPending(p, LinkCodeOf(body), t)

\* the handler reaches self._cleanup_expired_codes()
LinkReachesCleanup(body) ==
    /\ ~RaisesJSONDecodeError(body)
    /\ ~RaisesAttributeError(body)
    /\ LinkCodeOf(body) # <<>>

\* the body of the 200 response
LinkSuccessBody(token, link_data) ==
    [success |-> TRUE,
     session_token |-> token,
     discord_id |-> link_data.discord_id,
     discord_username |-> link_data.discord_username,
     expires_in |-> ExpiresInSeconds]

\* the response to a code that is not pending
InvalidCodeResponse ==
    JsonResponse(401, [error |-> "Invalid or expired code"])

\* a handler that tells an expired code from an unknown one
LinkResponse_TellsExpired(p, body, t, token) ==
    IF RaisesJSONDecodeError(body)
    THEN JsonResponse(400, [error |-> "Invalid JSON"])
    ELSE IF RaisesAttributeError(body)
    THEN ServerError
    ELSE IF LinkCodeOf(body) = <<>>
    THEN JsonResponse(400, [error |-> "No code provided"])
    ELSE IF LinkCodeOf(body) \in DOMAIN p /\ p[LinkCodeOf(body)].expires_at < t
    THEN JsonResponse(401, [error |-> "Code expired"])
    ELSE IF ~CodeIsPending(p, LinkCodeOf(body), t)
    THEN InvalidCodeResponse
    ELSE JsonResponse(200, LinkSuccessBody(token, p[LinkCodeOf(body)]))

\* the response of _api_verify_link_code to `body` at time t, `token` being
\* the token _create_session would draw
LinkResponse(p, body, t, token) ==
    IF RaisesJSONDecodeError(body)
    THEN JsonResponse(400, [error |-> "Invalid JSON"])
    ELSE IF RaisesAttributeError(body)
    THEN ServerError
    ELSE IF LinkCodeOf(body) = <<>>
    THEN JsonResponse(400, [error |-> "No code provided"])
    ELSE IF ~CodeIsPending(p, LinkCodeOf(body), t)
    THEN InvalidCodeResponse
    ELSE JsonResponse(200, LinkSuccessBody(token, p[LinkCodeOf(body)]))

\* a handler that reads the link data without popping the code
PendingAfterLink_NoPop(p, body, t) ==
    IF LinkReachesCleanup(body) THEN CleanupExpiredCodes(p, t) ELSE p

\* a handler that runs _cleanup_expired_codes before it looks at the code
PendingAfterLink_CleansFirst(p, body, t) ==
    IF RaisesJSONDecodeError(body) \/ RaisesAttributeError(body) THEN p
    ELSE IF CodeIsPending(p, LinkCodeOf(body), t)
    THEN DictDel(CleanupExpiredCodes(p, t), {LinkCodeOf(body)})
    ELSE CleanupExpiredCodes(p, t)

\* a handler that answers a code that is not pending by dropping every
\* pending code
PendingAfterLink_DropsAllOnFailure(p, body, t) ==
    IF ~LinkReachesCleanup(body) THEN p
    ELSE IF CodeIsPending(p, LinkCodeOf(body), t)
    THEN DictDel(CleanupExpiredCodes(p, t), {LinkCodeOf(body)})
    ELSE EmptyDict

\* pending_link_codes after _api_verify_link_code
PendingAfterLink(p, body, t) ==
    IF ~LinkReachesCleanup(body) THEN p
    ELSE IF CodeIsPending(p, LinkCodeOf(body), t)
    THEN DictDel(CleanupExpiredCodes(p, t), {LinkCodeOf(body)})
    ELSE CleanupExpiredCodes(p, t)

\* sessions after _api_verify_link_code
SessionsAfterLink(s, p, body, t, token) ==
    IF LinkSucceeds(p, body, t)
    THEN SessionsAfterCreate(s, token, p[LinkCodeOf(body)].discord_id,
                             p[LinkCodeOf(body)].discord_username, t)
    ELSE s

---------------------------------------------------------------------------
(* POST /api/auth/logout and GET /api/auth/check *)

\* a logout that keeps the session
SessionsAfterLogout_Keeps(s, hdr) == s

\* sessions after _api_logout
SessionsAfterLogout(s, hdr) ==
    IF HasToken(hdr) /\ hdr.value \in DOMAIN s
    THEN DictDel(s, {hdr.value})
    ELSE s

\* a logout that refuses a token it does not know
LogoutResponse_Strict(s, hdr) ==
    IF HasToken(hdr) /\ hdr.value \in DOMAIN s
    THEN JsonResponse(200, [success |-> TRUE])
    ELSE JsonResponse(401, [error |-> "Not authenticated"])

\* the response of _api_logout
LogoutResponse(s, hdr) == JsonResponse(200, [success |-> TRUE])

\* the response of _api_check_session
CheckResponse(s, hdr, t) ==
    IF SessionFound(s, hdr, t)
    THEN JsonResponse(200, [authenticated |-> TRUE,
                            discord_id |-> s[hdr.value].discord_id,
                            discord_username |-> s[hdr.value].discord_username])
    ELSE JsonResponse(200, [authenticated |-> FALSE])

---------------------------------------------------------------------------
(* The data store: DatabaseManager *)

\* rows of the players table
NumPlayers == 22

\* the players table: one row for the discord id 1, none for the discord id
\* 2, and rows of other users; no two rows have the same drachma
PlayersTable ==
    [i \in 1..NumPlayers |->
        LET id == IF i = 1 THEN 1 ELSE i + 1
        IN  [user_id |-> id, drachma |-> (id * 7) % 29]]

\* the discord ids that have a row in the players table
Players == {PlayersTable[i].user_id : i \in 1..NumPlayers}

\* the mail table when the server starts: one unread mail of player 1
InitialMail == [m \in {1} |-> [user_id |-> 1, is_read |-> FALSE]]

\* int(s) of a path segment or query value: it parses decimal digits after
\* an optional sign
DigitChars == <<"0","1","2","3","4","5","6","7","8","9">>

IsDigit(ch) == \E i \in 1..Len(DigitChars) : DigitChars[i] = ch

DigitValue(ch) == (CHOOSE i \in 1..Len(DigitChars) : DigitChars[i] = ch) - 1

HasSign(s) == s # <<>> /\ Head(s) \in {"-", "+"}

\* the literal without its sign
Unsigned(s) == IF HasSign(s) THEN Tail(s) ELSE s

\* int(s) raises ValueError
RaisesValueError(s) ==
    Unsigned(s) = <<>> \/ \E i \in 1..Len(Unsigned(s)) : ~IsDigit(Unsigned(s)[i])

RECURSIVE DigitsValue(_)
DigitsValue(s) ==
    IF s = <<>> THEN 0
    ELSE 10 * DigitsValue(SubSeq(s, 1, Len(s) - 1)) + DigitValue(s[Len(s)])

IntOf(s) ==
    IF HasSign(s) /\ Head(s) = "-"
    THEN 0 - DigitsValue(Unsigned(s))
    ELSE DigitsValue(Unsigned(s))

\* the mail_id path segments a client can send
MailIdParams == { <<"1">>, <<"2">>, <<"x">> }

\* of these, a mail that exists and a segment that is no number
SentMailIds == { <<"1">>, <<"x">> }

\* mark_mail_read: UPDATE mail SET is_read = 1 WHERE mail_id = %s
\* (`up`: _execute has a pool and the statement raises nothing)
MailAfterMarkRead(rows, mail_id, up) ==
    IF up /\ mail_id \in DOMAIN rows
    THEN [rows EXCEPT ![mail_id].is_read = TRUE]
    ELSE rows

\* delete_mail: DELETE FROM mail WHERE mail_id = %s AND user_id = %s
MailAfterDelete(rows, mail_id, user_id, up) ==
    IF up /\ mail_id \in DOMAIN rows /\ rows[mail_id].user_id = user_id
    THEN DictDel(rows, {mail_id})
    ELSE rows

\* get_all_mail: the caller's rows (None, read as [], when _execute fails)
MailOf(rows, user_id, up) ==
    IF up THEN {[mail_id |-> m, is_read |-> rows[m].is_read] :
                    m \in {k \in DOMAIN rows : rows[k].user_id = user_id}}
    ELSE {}

\* len(get_unread_mail(user_id) or [])
UnreadCount(rows, user_id, up) ==
    IF up
    THEN Cardinality({k \in DOMAIN rows :
                         rows[k].user_id = user_id /\ ~rows[k].is_read})
    ELSE 0

---------------------------------------------------------------------------
(* The protected routes *)

\* handlers that read the store
ReadRoutes == {"profile", "inventory", "transactions", "mail"}

\* handlers that take {mail_id} and write the store
MailRoutes == {"mail_read", "mail_delete"}

ProtectedRoutes == ReadRoutes \cup MailRoutes

\* _require_auth raises web.HTTPUnauthorized
NotAuthenticated == JsonResponse(401, [error |-> "Not authenticated"])

DatabaseNotAvailable == JsonResponse(503, [error |-> "Database not available"])

\* "except Exception as e": web.json_response({'error': str(e)}, status=500),
\* for the ValueError of int(s): str(e) is the fixed text followed by s
ErrorResponse(s) ==
    JsonResponse(500, [error |-> "invalid literal for int() with base 10: ",
                       literal |-> s])

\* the ?limit= query values a client can send (none sent reads as the
\* default: "20" for /api/player/transactions, "10" for the leaderboard)
QueryLimits ==
    { <<"2","0">>, <<"5">>, <<"x">>, <<"y">>,
      <<"1","0">>, <<"0">>, <<"1","0","0">>, <<"-","1">>, <<"-","5">> }

\* the response of a read handler to an authenticated caller, db present;
\* `param` is the limit query of /api/player/transactions
ReadRouteResponse(route, session, param, rows, up) ==
    IF route = "transactions" /\ RaisesValueError(param)
    THEN ErrorResponse(param)
    ELSE IF route = "profile"
    THEN IF up /\ session.discord_id \in Players
         THEN JsonResponse(200, [user_id |-> session.discord_id,
                                 unread_mail |-> UnreadCount(rows, session.discord_id, up)])
         ELSE JsonResponse(404, [error |-> "Player not found"])
    ELSE IF route = "mail"
    THEN JsonResponse(200, [mail |-> MailOf(rows, session.discord_id, up)])
    ELSE JsonResponse(200, [rows |-> IF up THEN route ELSE "none"])

\* the response of a mail handler to an authenticated caller, db present
MailRouteResponse(route, up) ==
    IF route = "mail_read" \/ up
    THEN JsonResponse(200, [success |-> TRUE])
    ELSE JsonResponse(400, [error |-> "Could not delete mail"])

\* the response of a protected handler
ProtectedResponse(route, s, hdr, t, param, d, rows, up) ==
    IF ~SessionFound(s, hdr, t) THEN NotAuthenticated
    ELSE IF route \in MailRoutes /\ RaisesValueError(param) THEN ServerError
    ELSE IF d = "none" THEN DatabaseNotAvailable
    ELSE IF route \in MailRoutes THEN MailRouteResponse(route, up)
    ELSE ReadRouteResponse(route, s[hdr.value], param, rows, up)

\* the store-backed handlers that ask for no session
PublicRoutes == {"leaderboard", "timeline"}

\* min(a, b)
Min(a, b) == IF a < b THEN a ELSE b

\* the row of a non-empty list with the most drachma
RichestOf(rows) ==
    CHOOSE i \in 1..Len(rows) :
        \A j \in 1..Len(rows) : rows[j].drachma <= rows[i].drachma

\* ORDER BY drachma DESC, and sorted(players, key=drachma, reverse=True)
RECURSIVE SortedByDrachma(_)
SortedByDrachma(rows) ==
    IF rows = <<>> THEN <<>>
    ELSE LET i == RichestOf(rows)
         IN  <<rows[i]>> \o SortedByDrachma(SubSeq(rows, 1, i - 1)
                                             \o SubSeq(rows, i + 1, Len(rows)))

\* a list's slice [:k]: the first k items, or all but the last -k when k < 0
SliceTo(rows, k) ==
    IF k >= 0 THEN SubSeq(rows, 1, Min(k, Len(rows)))
    ELSE SubSeq(rows, 1, Len(rows) + k)

\* db.get_all_players(limit=100) or []: None, read as [], when _execute
\* fails
AllPlayers(up) ==
    IF up THEN SliceTo(SortedByDrachma(PlayersTable), 100) ELSE <<>>

\* the list _api_get_public_leaderboard sends for the limit query `param`
Leaderboard(param, up) ==
    SliceTo(SortedByDrachma(AllPlayers(up)), Min(IntOf(param), 20))

\* the response of _api_get_public_leaderboard and _api_get_public_timeline;
\* `param` is the limit query; a store call that fails returns None, read
\* as []
PublicResponse(route, param, d, up) ==
    IF d = "none" THEN DatabaseNotAvailable
    ELSE IF RaisesValueError(param) THEN ErrorResponse(param)
    ELSE IF route = "leaderboard"
    THEN JsonResponse(200, [leaderboard |-> Leaderboard(param, up)])
    ELSE JsonResponse(200, [rows |-> IF up THEN route ELSE "none"])

\* _cors_middleware on an OPTIONS request: web.Response(), no handler called
OptionsResponse == [status |-> 200, body |-> <<>>, cors |-> TRUE]

\* the handler reaches its store calls
ReachesStore(route, s, hdr, t, param, d) ==
    /\ SessionFound(s, hdr, t)
    /\ route \in MailRoutes => ~RaisesValueError(param)
    /\ d # "none"

\* mail handlers that call the store before _require_auth
MailAfterProtected_NoAuth(route, s, hdr, t, param, d, rows, up) ==
    IF ~(route \in MailRoutes /\ ~RaisesValueError(param) /\ d # "none")
    THEN rows
    ELSE IF route = "mail_read"
    THEN MailAfterMarkRead(rows, IntOf(param), up)
    ELSE IF SessionFound(s, hdr, t)
    THEN MailAfterDelete(rows, IntOf(param), s[hdr.value].discord_id, up)
    ELSE rows

\* the mail table after a protected handler
MailAfterProtected(route, s, hdr, t, param, d, rows, up) ==
    IF ~(route \in MailRoutes /\ ReachesStore(route, s, hdr, t, param, d))
    THEN rows
    ELSE IF route = "mail_read"
    THEN MailAfterMarkRead(rows, IntOf(param), up)
    ELSE MailAfterDelete(rows, IntOf(param), s[hdr.value].discord_id, up)

---------------------------------------------------------------------------
(* The history of the link codes: what the holders of the codes have seen.
   The server keeps none of it; hist records it for the properties that
   speak of codes given out or redeemed earlier. *)

\* nothing has happened yet
NoHist ==
    [dead |-> {}, lastOk |-> {},
     issuedTo |-> [i \in DiscordIds |-> {}],
     latest |-> [i \in DiscordIds |-> <<>>]]

\* time reaches t: the pending codes whose expires_at lies before t have
\* expired
HistAfterTick(h, p, t) ==
    [h EXCEPT !.dead = @ \cup {c \in DOMAIN p : p[c].expires_at < t}]

\* generate_link_code(discord_id, _) returned `code`
HistAfterGenerate(h, discord_id, code) ==
    [h EXCEPT !.issuedTo[discord_id] = @ \cup {code},
              !.latest[discord_id] = code]

\* _api_verify_link_code answered `body`: a 200 redeems the code, and lastOk
\* holds the codes whose latest attempt was answered 200
HistAfterLink(h, p, body, t) ==
    IF LinkSucceeds(p, body, t)
    THEN [h EXCEPT !.dead = @ \cup {LinkCodeOf(body)},
                   !.lastOk = @ \cup {LinkCodeOf(body)}]
    ELSE IF LinkReachesCleanup(body)
    THEN [h EXCEPT !.lastOk = @ \ {LinkCodeOf(body)}]
    ELSE h

---------------------------------------------------------------------------
(* Initial state: the module's db, and CampHalfBloodServer.__init__ *)

Init ==
    /\ now = 0
    /\ pending_link_codes = EmptyDict
    /\ sessions = EmptyDict
    /\ minted = 0
    /\ reading = 0
    /\ db \in {"none", "manager"}
    /\ mail = InitialMail
    /\ hist = NoHist

---------------------------------------------------------------------------
(* Actions *)

ClockSteps == {LinkCodeMinutes, SessionMinutes}

\* link-code lifetimes elapsed since the last whole session lifetime
ShortSteps(t) == (t % SessionMinutes) \div LinkCodeMinutes

\* time passes: by one session lifetime once, and by up to MaxTicks
\* link-code lifetimes before and after it
Tick(d) ==
    /\ IF d = SessionMinutes
          THEN now < SessionMinutes
          ELSE ShortSteps(now) < MaxTicks
    /\ now' = now + d
    /\ UNCHANGED <<pending_link_codes, sessions, minted, reading, db, mail>>

\* generate_link_code(discord_id, discord_username), drawing `code`
GenerateLinkCode(discord_id, discord_username, code) ==
    /\ pending_link_codes' =
           PendingAfterGenerate(pending_link_codes, discord_id,
                                discord_username, code, now)
    /\ UNCHANGED <<now, sessions, minted, reading, db, mail>>

\* a POST /api/auth/link arrives: _api_verify_link_code runs up to
\* "await request.json()" and is suspended there
ReceiveLink ==
    /\ reading < NumReqs
    /\ reading' = reading + 1
    /\ UNCHANGED <<now, pending_link_codes, sessions, minted, db, mail>>

\* request.json() returns (or raises on) the body the client sent, and
\* _api_verify_link_code runs to its end
VerifyLinkCode(body) ==
    /\ reading > 0
    /\ LinkSucceeds(pending_link_codes, body, now) => minted < MaxTokens
    /\ reading' = reading - 1
    /\ pending_link_codes' = PendingAfterLink(pending_link_codes, body, now)
    /\ sessions' = SessionsAfterLink(sessions, pending_link_codes, body, now,
                                     TokenOf(minted + 1))
    /\ minted' = IF LinkSucceeds(pending_link_codes, body, now)
                 THEN minted + 1 ELSE minted
    /\ UNCHANGED <<now, db, mail>>

\* POST /api/auth/logout: _api_logout
Logout(hdr) ==
    /\ sessions' = SessionsAfterLogout(sessions, hdr)
    /\ UNCHANGED <<now, pending_link_codes, minted, reading, db, mail>>

\* GET /api/auth/check: _api_check_session
CheckSession(hdr) ==
    /\ sessions' = SessionsAfterGet(sessions, hdr, now)
    /\ UNCHANGED <<now, pending_link_codes, minted, reading, db, mail>>

\* GET /api/player/profile, /api/player/inventory, /api/player/transactions
\* and /api/mail
ReadRoute(route, hdr) ==
    /\ sessions' = SessionsAfterGet(sessions, hdr, now)
    /\ UNCHANGED <<now, pending_link_codes, minted, reading, db, mail>>

\* GET /api/public/leaderboard and /api/public/timeline, and OPTIONS on any
\* path: the state is left as it is
PublicRoute(route) ==
    /\ route \in PublicRoutes
    /\ UNCHANGED <<now, pending_link_codes, sessions, minted, reading, db, mail>>

Options ==
    UNCHANGED <<now, pending_link_codes, sessions, minted, reading, db, mail>>

\* POST /api/mail/read/{mail_id} and DELETE /api/mail/{mail_id}
MailRoute(route, hdr, param, up) ==
    /\ UNCHANGED <<now, pending_link_codes, minted, reading, db>>
    /\ sessions' = SessionsAfterGet(sessions, hdr, now)
    /\ mail' = MailAfterProtected(route, sessions, hdr, now, param, db, mail, up)

Next ==
    \/ \E d \in ClockSteps : Tick(d) /\ UNCHANGED hist
    \/ \E i \in DiscordIds, c \in Codes :
           GenerateLinkCode(i, UsernameOf(i), c) /\ UNCHANGED hist
    \/ ReceiveLink /\ UNCHANGED hist
    \/ \E b \in LinkBodies : VerifyLinkCode(b) /\ UNCHANGED hist
    \/ \E h \in TokenHeaders : Logout(h) /\ UNCHANGED hist
    \/ \E h \in TokenHeaders : CheckSession(h) /\ UNCHANGED hist
    \/ \E rt \in ReadRoutes, h \in SentHeaders :
           ReadRoute(rt, h) /\ UNCHANGED hist
    \/ \E rt \in MailRoutes, h \in SentHeaders, m \in SentMailIds,
           up \in BOOLEAN :
           MailRoute(rt, h, m, up) /\ UNCHANGED hist
    \/ \E rt \in PublicRoutes : PublicRoute(rt) /\ UNCHANGED hist
    \/ Options /\ UNCHANGED hist

Spec == Init /\ [][Next]_vars

---------------------------------------------------------------------------
(* The same server with the history of its link codes recorded in hist *)

NextHist ==
    \/ \E d \in ClockSteps :
           Tick(d) /\ hist' = HistAfterTick(hist, pending_link_codes, now + d)
    \/ \E i \in DiscordIds, c \in Codes :
           /\ GenerateLinkCode(i, UsernameOf(i), c)
           /\ hist' = HistAfterGenerate(hist, i, c)
    \/ ReceiveLink /\ UNCHANGED hist
    \/ \E b \in LinkBodies :
           /\ VerifyLinkCode(b)
           /\ hist' = HistAfterLink(hist, pending_link_codes, b, now)
    \/ \E h \in TokenHeaders : Logout(h) /\ UNCHANGED hist
    \/ \E h \in TokenHeaders : CheckSession(h) /\ UNCHANGED hist

SpecHist == Init /\ [][NextHist]_vars

---------------------------------------------------------------------------
(* A race for one code: RaceReqs handlers of POST /api/auth/link are suspended
   in request.json(), each carrying a spelling of the one code that is
   pending; they resume in any order, among other traffic, within the
   lifetime of the code. *)

\* the code the race is for: the one hist says was given out
RacedCodes == {hist.latest[i] : i \in DiscordIds} \ {<<>>}

\* the bodies that spell it
RaceBodies ==
    {b \in LinkBodies : b.kind = "code" /\ LinkCodeOf(b) \in RacedCodes}

InitRace ==
    /\ now = 0
    /\ \E i \in DiscordIds, c \in Codes :
          /\ pending_link_codes =
                 PendingAfterGenerate(EmptyDict, i, UsernameOf(i), c, 0)
          /\ hist = HistAfterGenerate(NoHist, i, c)
    /\ sessions = EmptyDict
    /\ minted = 0
    /\ reading = RaceReqs
    /\ db \in {"none", "manager"}
    /\ mail = InitialMail

NextRace ==
    \/ \E b \in RaceBodies :
           /\ VerifyLinkCode(b)
           /\ hist' = HistAfterLink(hist, pending_link_codes, b, now)
    \/ \E d \in ClockSteps :
           /\ now + d <= LinkCodeMinutes
           /\ Tick(d)
           /\ hist' = HistAfterTick(hist, pending_link_codes, now + d)
    \/ \E h \in TokenHeaders : Logout(h) /\ UNCHANGED hist
    \/ \E h \in TokenHeaders : CheckSession(h) /\ UNCHANGED hist
    \/ \E rt \in ReadRoutes, h \in SentHeaders :
           ReadRoute(rt, h) /\ UNCHANGED hist
    \/ \E rt \in MailRoutes, h \in SentHeaders, m \in SentMailIds,
           up \in BOOLEAN :
           MailRoute(rt, h, m, up) /\ UNCHANGED hist

SpecRace == InitRace /\ [][NextRace]_vars

---------------------------------------------------------------------------
(* The link-code and session operations with the bot's calls counted: hist
   holds the number of calls of generate_link_code so far *)

NoCalls == [calls |-> 0]

HistAfterCall(h) == [h EXCEPT !.calls = @ + 1]

InitCalls ==
    /\ now = 0
    /\ pending_link_codes = EmptyDict
    /\ sessions = EmptyDict
    /\ minted = 0
    /\ reading = 0
    /\ db \in {"none", "manager"}
    /\ mail = InitialMail
    /\ hist = NoCalls

NextCalls ==
    \/ \E d \in ClockSteps : Tick(d) /\ UNCHANGED hist
    \/ \E i \in DiscordIds, c \in Codes :
           /\ hist.calls < MaxCalls
           /\ GenerateLinkCode(i, UsernameOf(i), c)
           /\ hist' = HistAfterCall(hist)
    \/ ReceiveLink /\ UNCHANGED hist
    \/ \E b \in LinkBodies : VerifyLinkCode(b) /\ UNCHANGED hist
    \/ \E h \in TokenHeaders : Logout(h) /\ UNCHANGED hist
    \/ \E h \in TokenHeaders : CheckSession(h) /\ UNCHANGED hist

SpecCalls == InitCalls /\ [][NextCalls]_vars

---------------------------------------------------------------------------
(* Properties of the link codes and sessions *)

\* the bodies a client sends to redeem the code c, in any spelling
SpellingsOf(c) ==
    {b \in LinkBodies : b.kind = "code" /\ LinkCodeOf(b) = c}

\* the six protected handlers answer 401 to the header hdr, whatever the
\* path segment and the state of the store
AllProtected401(s, hdr, t) ==
    \A rt \in ProtectedRoutes, m \in MailIdParams, d \in {"none", "manager"},
       up \in BOOLEAN :
        ProtectedResponse(rt, s, hdr, t, m, d, mail, up) = NotAuthenticated

\* C2: when RaceReqs suspended POST /api/auth/link handlers carrying the
\* same pending, unexpired code resume in any order, the first to resume is
\* answered 200 and mints the one session, and each later one is answered
\* 401: never are two sessions minted from the code.
C2_ExactlyOneRedemption ==
    /\ minted = (IF reading < RaceReqs THEN 1 ELSE 0)
    /\ DOMAIN sessions \subseteq {TokenOf(1)}
    /\ \A b \in RaceBodies :
          LET r == LinkResponse(pending_link_codes, b, now, TokenOf(minted + 1))
          IN  /\ r.status = (IF reading = RaceReqs THEN 200 ELSE 401)
              /\ reading < RaceReqs => r = InvalidCodeResponse
    /\ reading < RaceReqs => RacedCodes \cap DOMAIN pending_link_codes = {}

\* every handler of the race has answered: one 200, two 401
C2_Witness == reading = 0 /\ minted = 1 /\ TokenOf(1) \in DOMAIN sessions

\* C4: a pending code whose deadline has passed (expires_at < now) is
\* answered 401 "Invalid or expired code" and creates no session, though it
\* was never redeemed and still sits in pending_link_codes.
C4_ExpiredCodeRejected ==
    \A c \in DOMAIN pending_link_codes :
        pending_link_codes[c].expires_at < now =>
            \A b \in SpellingsOf(c) :
                /\ LinkResponse(pending_link_codes, b, now,
                                TokenOf(minted + 1)).status = 401
                /\ SessionsAfterLink(sessions, pending_link_codes, b, now,
                                     TokenOf(minted + 1)) = sessions

\* an expired code sits in the dict while a handler is about to read its body
C4_Witness ==
    /\ reading > 0
    /\ \E c \in DOMAIN pending_link_codes :
          /\ pending_link_codes[c].expires_at < now
          /\ SpellingsOf(c) # {}

\* C6: a session whose deadline has passed (expires_at < now) and that is
\* still in the sessions dict is reported not authenticated by
\* GET /api/auth/check and answered 401 by every protected route, exactly
\* as after a logout of its token.
C6_ExpiredSessionInvalid ==
    \A h \in TokenHeaders :
        (HasToken(h) /\ h.value \in DOMAIN sessions
                    /\ sessions[h.value].expires_at < now) =>
            /\ ~SessionFound(sessions, h, now)
            /\ CheckResponse(sessions, h, now)
                   = JsonResponse(200, [authenticated |-> FALSE])
            /\ CheckResponse(sessions, h, now)
                   = CheckResponse(SessionsAfterLogout(sessions, h), h, now)
            /\ AllProtected401(sessions, h, now)
            /\ AllProtected401(SessionsAfterLogout(sessions, h), h, now)

\* an expired session that no sweep has removed
C6_Witness ==
    \E k \in DOMAIN sessions : sessions[k].expires_at < now

\* C7: POST /api/auth/logout answers 200 {success: true} to every header -
\* a valid token, an unknown one, a revoked one, an expired one, none - and
\* a second logout with the same header is answered the same and leaves the
\* sessions as the first left them.
C7_LogoutSucceedsIdempotent ==
    \A h \in TokenHeaders :
        LET once == SessionsAfterLogout(sessions, h)
        IN  /\ LogoutResponse(sessions, h)
                   = JsonResponse(200, [success |-> TRUE])
            /\ LogoutResponse(once, h) = LogoutResponse(sessions, h)
            /\ SessionsAfterLogout(once, h) = once

\* one token is gone from the dict, another is in it and expired
C7_Witness ==
    /\ minted = 2
    /\ TokenOf(1) \notin DOMAIN sessions
    /\ TokenOf(2) \in DOMAIN sessions
    /\ sessions[TokenOf(2)].expires_at < now

\* the header hdr is answered as one without a session, by every route
Unauthenticated(s, hdr, t) ==
    /\ CheckResponse(s, hdr, t) = JsonResponse(200, [authenticated |-> FALSE])
    /\ AllProtected401(s, hdr, t)

\* C8: a logout with the token t removes t from sessions; a minted token
\* that is not in sessions is answered authenticated:false by
\* GET /api/auth/check and 401 by every protected route; and no step of the
\* server puts a minted token back into sessions.
C8_RevokedIsTerminal ==
    /\ [](\A h \in TokenHeaders :
             HasToken(h) =>
                 /\ h.value \notin DOMAIN SessionsAfterLogout(sessions, h)
                 /\ Unauthenticated(SessionsAfterLogout(sessions, h), h, now))
    /\ [](\A n \in 1..minted :
             TokenOf(n) \notin DOMAIN sessions =>
                 Unauthenticated(sessions, Header(TokenOf(n)), now))
    /\ [][\A n \in 1..minted :
             TokenOf(n) \notin DOMAIN sessions =>
                 TokenOf(n) \notin DOMAIN sessions']_vars

\* before anything can expire, the first token has been logged out and a
\* second one has been minted since
C8_Witness ==
    /\ now = 0
    /\ minted = 2
    /\ TokenOf(1) \notin DOMAIN sessions
    /\ TokenOf(2) \in DOMAIN sessions

\* C10: every code the handler rejects - one that is not in
\* pending_link_codes because it never was, was redeemed or was replaced,
\* and one that is in it and expired - gets the same response, 401
\* "Invalid or expired code".
C10_RejectionsAlike ==
    \A b \in LinkBodies :
        (LinkReachesCleanup(b) /\ ~LinkSucceeds(pending_link_codes, b, now)) =>
            LinkResponse(pending_link_codes, b, now, TokenOf(minted + 1))
                = InvalidCodeResponse

\* a handler is about to read its body while one code is in the dict and
\* expired, and another code is not in the dict
C10_Witness ==
    /\ reading > 0
    /\ \E c \in DOMAIN pending_link_codes :
          pending_link_codes[c].expires_at < now
    /\ Codes \ DOMAIN pending_link_codes # {}

---------------------------------------------------------------------------
(* Properties that speak of codes given out or redeemed earlier: hist holds
   what the server does not *)

\* C1: a code whose latest POST /api/auth/link was answered 200 is answered
\* 401 by the next one, which leaves the sessions as they are.
C1_SecondRedeemFails ==
    \A c \in hist.lastOk : \A b \in SpellingsOf(c) :
        /\ LinkResponse(pending_link_codes, b, now,
                        TokenOf(minted + 1)).status = 401
        /\ SessionsAfterLink(sessions, pending_link_codes, b, now,
                             TokenOf(minted + 1)) = sessions

\* C3: a code value that has been redeemed or has expired is never again
\* one that POST /api/auth/link accepts, whatever was generated since.
C3_DeadCodeStaysDead ==
    \A c \in hist.dead : \A b \in SpellingsOf(c) :
        ~LinkSucceeds(pending_link_codes, b, now)

\* C5: a code that generate_link_code returned to an identity before its
\* latest call for that identity is answered 401.
C5_FirstCodeInvalidated ==
    \A i \in DiscordIds : \A c \in hist.issuedTo[i] \ {hist.latest[i]} :
        \A b \in SpellingsOf(c) :
            LinkResponse(pending_link_codes, b, now,
                         TokenOf(minted + 1)).status = 401

\* C9: when a code that generate_link_code(i, name) returned redeems, the
\* response and the session carry i and name.
C9_HolderGetsOwnIdentity ==
    \A i \in DiscordIds : \A c \in hist.issuedTo[i] :
        \A b \in SpellingsOf(c) :
            LinkSucceeds(pending_link_codes, b, now) =>
                LET r == LinkResponse(pending_link_codes, b, now,
                                      TokenOf(minted + 1))
                    s == SessionsAfterLink(sessions, pending_link_codes, b,
                                           now, TokenOf(minted + 1))
                IN  /\ r.body.discord_id = i
                    /\ r.body.discord_username = UsernameOf(i)
                    /\ s[TokenOf(minted + 1)].discord_id = i
                    /\ s[TokenOf(minted + 1)].discord_username = UsernameOf(i)

---------------------------------------------------------------------------
(* Properties of the protected routes, of the request checks and of the
   deadlines *)

\* C11: a request to any of the six protected routes whose
\* X-Session-Token is missing, empty, unknown, expired or revoked is
\* answered 401 "Not authenticated", does not reach the handler's store
\* calls and leaves the mail table as it is.
C11_UnauthenticatedTouchesNothing ==
    \A h \in TokenHeaders :
        ~SessionFound(sessions, h, now) =>
            \A rt \in ProtectedRoutes, m \in MailIdParams, up \in BOOLEAN :
                /\ ProtectedResponse(rt, sessions, h, now, m, db, mail, up)
                       = NotAuthenticated
                /\ ~ReachesStore(rt, sessions, h, now, m, db)
                /\ MailAfterProtected(rt, sessions, h, now, m, db, mail, up)
                       = mail

\* the store is there with an unread mail, one minted token is gone from
\* sessions and another is in it and expired
C11_Witness ==
    /\ db = "manager"
    /\ 1 \in DOMAIN mail /\ ~mail[1].is_read
    /\ \E n \in 1..minted : TokenOf(n) \notin DOMAIN sessions
    /\ \E k \in DOMAIN sessions : sessions[k].expires_at < now

\* C12: for an authenticated caller and a mail of another identity, neither
\* POST /api/mail/read/{m} nor DELETE /api/mail/{m} changes the mail: it is
\* still there, with its is_read flag as before.
C12_MailOwnerFiltered ==
    \A h \in TokenHeaders :
        SessionFound(sessions, h, now) =>
            \A rt \in MailRoutes, param \in MailIdParams, up \in BOOLEAN :
                ~RaisesValueError(param) =>
                    LET m == IntOf(param)
                        after == MailAfterProtected(rt, sessions, h, now,
                                                    param, db, mail, up)
                    IN  (m \in DOMAIN mail
                           /\ mail[m].user_id # sessions[h.value].discord_id)
                          => (m \in DOMAIN after /\ after[m] = mail[m])

\* the bodies whose code is empty after .upper().strip(): "", blanks only,
\* or no "code" key (data.get('code', '') gives '')
EmptyCodeBodies ==
    {b \in LinkBodies : b.kind \in {"code", "no_code"} /\ LinkCodeOf(b) = <<>>}

\* C13: POST /api/auth/link with a code that is empty after normalization
\* is answered 400 "No code provided", not 401, and leaves
\* pending_link_codes and sessions as they are.
C13_EmptyCodeIs400 ==
    \A b \in EmptyCodeBodies :
        /\ LinkResponse(pending_link_codes, b, now, TokenOf(minted + 1))
               = JsonResponse(400, [error |-> "No code provided"])
        /\ PendingAfterLink(pending_link_codes, b, now) = pending_link_codes
        /\ SessionsAfterLink(sessions, pending_link_codes, b, now,
                             TokenOf(minted + 1)) = sessions

\* a handler is about to read its body while an expired code and an expired
\* session are there for a cleanup to remove
C13_Witness ==
    /\ reading > 0
    /\ \E c \in DOMAIN pending_link_codes :
          pending_link_codes[c].expires_at < now
    /\ \E k \in DOMAIN sessions : sessions[k].expires_at < now
    /\ Cardinality(EmptyCodeBodies) = 3

\* the malformed bodies: not JSON, JSON that is no object, an object
\* without "code", a "code" that is no string
MalformedBodies ==
    {b \in LinkBodies :
        b.kind \in {"invalid_json", "not_object", "no_code", "code_not_str"}}

\* C14: a POST /api/auth/link handler that reads a malformed body answers
\* 400, never 500, and creates no session.
C14_MalformedIs400 ==
    \A b \in MalformedBodies :
        reading > 0 =>
        /\ LinkResponse(pending_link_codes, b, now,
                        TokenOf(minted + 1)).status = 400
        /\ SessionsAfterLink(sessions, pending_link_codes, b, now,
                             TokenOf(minted + 1)) = sessions

\* C15: when the store is unavailable - no db object, or a DatabaseManager
\* whose _execute has no pool or fails - an authenticated request to a
\* protected route and a request to the public leaderboard or timeline are
\* answered 503.
C15_StoreDownIs503 ==
    \A up \in BOOLEAN :
        (db = "none" \/ ~up) =>
            /\ \A rt \in PublicRoutes, q \in QueryLimits :
                  ~RaisesValueError(q) =>
                      PublicResponse(rt, q, db, up).status = 503
            /\ \A h \in TokenHeaders, rt \in ProtectedRoutes,
                  m \in MailIdParams :
                  (SessionFound(sessions, h, now) /\ ~RaisesValueError(m)) =>
                      ProtectedResponse(rt, sessions, h, now, m, db, mail,
                                        up).status = 503

\* C16: every response carries the Access-Control-Allow-* headers - those
\* of POST /api/auth/link, of logout and check, of the protected and the
\* public routes, whatever the handler's outcome - and an OPTIONS request
\* is answered an empty 200 with them.
C16_EveryResponseHasCors ==
    /\ OptionsResponse.status = 200 /\ OptionsResponse.cors
    /\ \A h \in TokenHeaders :
          /\ LogoutResponse(sessions, h).cors
          /\ CheckResponse(sessions, h, now).cors
          /\ \A rt \in ProtectedRoutes, m \in MailIdParams \cup QueryLimits,
                up \in BOOLEAN :
                ProtectedResponse(rt, sessions, h, now, m, db, mail, up).cors
    /\ \A rt \in PublicRoutes, q \in QueryLimits, up \in BOOLEAN :
          PublicResponse(rt, q, db, up).cors
    /\ reading > 0 =>
          \A b \in LinkBodies :
              LinkResponse(pending_link_codes, b, now, TokenOf(minted + 1)).cors

\* C17: the 500 responses of a handler do not depend on the detail of the
\* exception: two requests that differ only in the text of the ValueError
\* they cause get the same response.
C17_GenericServerError ==
    \A q1 \in QueryLimits, q2 \in QueryLimits, up \in BOOLEAN :
        (RaisesValueError(q1) /\ RaisesValueError(q2)) =>
            /\ \A rt \in PublicRoutes :
                  PublicResponse(rt, q1, db, up) = PublicResponse(rt, q2, db, up)
            /\ \A h \in TokenHeaders :
                  ProtectedResponse("transactions", sessions, h, now, q1, db,
                                    mail, up)
                    = ProtectedResponse("transactions", sessions, h, now, q2,
                                        db, mail, up)

\* the lower-case letter of each upper-case one
LowerOf ==
    [ch \in {UpperLetters[i] : i \in 1..Len(UpperLetters)} |->
        LowerLetters[CHOOSE i \in 1..Len(UpperLetters) : UpperLetters[i] = ch]]

LowerChar(ch) == IF ch \in DOMAIN LowerOf THEN LowerOf[ch] ELSE ch

StrLower(s) == [i \in 1..Len(s) |-> LowerChar(s[i])]

\* inputs that equal the code c after case-folding and trimming: c in lower
\* case, in mixed case, and between blanks, tabs and newlines
VariantsOf(c) ==
    { c,
      StrLower(c),
      [i \in 1..Len(c) |-> IF i % 2 = 0 THEN LowerChar(c[i]) ELSE c[i]],
      <<" ">> \o StrLower(c) \o <<" ">>,
      <<"\t", " ">> \o c,
      c \o <<"\n">> }

CodeBody(str) == [kind |-> "code", code |-> str]

\* C18: for a pending code c and an input s that equals c after
\* case-folding and trimming, POST /api/auth/link with s has the response
\* and the effect on pending_link_codes and sessions of the one with c.
C18_NormalizationInsensitive ==
    \A c \in DOMAIN pending_link_codes :
        LET token == TokenOf(minted + 1)
            r == LinkResponse(pending_link_codes, CodeBody(c), now, token)
            p == PendingAfterLink(pending_link_codes, CodeBody(c), now)
            s == SessionsAfterLink(sessions, pending_link_codes, CodeBody(c),
                                   now, token)
        IN  \A str \in VariantsOf(c) :
                /\ LinkResponse(pending_link_codes, CodeBody(str), now,
                                token) = r
                /\ PendingAfterLink(pending_link_codes, CodeBody(str), now) = p
                /\ SessionsAfterLink(sessions, pending_link_codes,
                                     CodeBody(str), now, token) = s

\* a handler is about to read its body while a code with letters is pending
\* and redeemable, and an upper-case spelling differs from the others
C18_Witness ==
    /\ reading > 0
    /\ \E c \in DOMAIN pending_link_codes :
          /\ ~(pending_link_codes[c].expires_at < now)
          /\ StrLower(c) # c
          /\ LinkSucceeds(pending_link_codes, CodeBody(StrLower(c)), now)

\* C19: POST /api/auth/link with a code succeeds if and only if the code is
\* in pending_link_codes and now < expires_at; at now = expires_at it is
\* answered 401.
C19_RedeemableIffBeforeDeadline ==
    \A c \in Codes : \A b \in SpellingsOf(c) :
        /\ LinkSucceeds(pending_link_codes, b, now)
              <=> (c \in DOMAIN pending_link_codes
                     /\ now < pending_link_codes[c].expires_at)
        /\ ~LinkSucceeds(pending_link_codes, b, now) =>
              LinkResponse(pending_link_codes, b, now,
                           TokenOf(minted + 1)).status = 401

\* C20: _get_session returns a session if and only if the token is in
\* sessions and now < expires_at; at now = expires_at it returns None.
C20_ValidIffBeforeDeadline ==
    \A h \in TokenHeaders :
        SessionFound(sessions, h, now)
          <=> (HasToken(h) /\ h.value \in DOMAIN sessions
                 /\ now < sessions[h.value].expires_at)

---------------------------------------------------------------------------
(* Properties of the two dicts: what each operation adds, keeps and removes *)

\* the codes pending for an identity whose deadline has not passed
UnexpiredCodesOf(p, discord_id, t) ==
    {c \in DOMAIN p : p[c].discord_id = discord_id /\ ~(p[c].expires_at < t)}

\* C21: in every reachable state pending_link_codes holds at most one
\* unexpired code for each discord_id, and so it does after one more call of
\* generate_link_code for any identity, whatever code the call draws.
C21_OneCodePerIdentity ==
    /\ \A i \in DiscordIds :
          Cardinality(UnexpiredCodesOf(pending_link_codes, i, now)) <= 1
    /\ \A i \in DiscordIds, j \in DiscordIds, c \in Codes :
          Cardinality(UnexpiredCodesOf(
              PendingAfterGenerate(pending_link_codes, i, UsernameOf(i), c, now),
              j, now)) <= 1

\* generate_link_code has been called at two times, and each identity has
\* an unexpired code: a second call for either identity has a code to remove
C21_Witness ==
    /\ hist.calls >= 2
    /\ \A i \in DiscordIds :
          Cardinality(UnexpiredCodesOf(pending_link_codes, i, now)) = 1
    /\ \E c \in DOMAIN pending_link_codes : pending_link_codes[c].created_at > 0
    /\ \E c \in DOMAIN pending_link_codes : pending_link_codes[c].created_at = 0

\* C22: a session that a redemption creates at time t has created_at = t
\* and expires_at = t + 7 days, whenever the code was issued; and no step
\* of the server - no lookup by _get_session in particular - changes a
\* record that is in sessions: a record stays as it is or is deleted.
C22_SessionNeverRenewed ==
    /\ [](\A k \in DOMAIN sessions :
             sessions[k].expires_at = sessions[k].created_at + SessionMinutes)
    /\ [](\A b \in LinkBodies :
             LinkSucceeds(pending_link_codes, b, now) =>
                 SessionsAfterLink(sessions, pending_link_codes, b, now,
                                   TokenOf(minted + 1))[TokenOf(minted + 1)]
                     .expires_at = now + SessionMinutes)
    /\ [](\A h \in TokenHeaders :
             \A k \in DOMAIN SessionsAfterGet(sessions, h, now) :
                 SessionsAfterGet(sessions, h, now)[k] = sessions[k])
    /\ [][/\ \A k \in DOMAIN sessions \cap DOMAIN sessions' :
                 sessions'[k] = sessions[k]
          /\ \A k \in DOMAIN sessions' \ DOMAIN sessions :
                 /\ sessions'[k].created_at = now
                 /\ sessions'[k].expires_at = now + SessionMinutes]_vars

\* a handler is about to read its body while a code issued earlier is
\* redeemable, and a session created earlier is still valid
C22_Witness ==
    /\ reading > 0
    /\ \E c \in DOMAIN pending_link_codes :
          /\ pending_link_codes[c].created_at < now
          /\ LinkSucceeds(pending_link_codes, CodeBody(c), now)
    /\ \E k \in DOMAIN sessions :
          /\ sessions[k].created_at < now
          /\ SessionFound(sessions, Header(k), now)

\* the token of hdr is in the dict s and its deadline has passed
SessionExpired(s, hdr, t) ==
    HasToken(hdr) /\ hdr.value \in DOMAIN s /\ s[hdr.value].expires_at < t

\* C23: a _get_session that returns a session leaves sessions as it was;
\* one that finds an expired session removes that entry and no other; one
\* with a missing, empty or unknown token changes nothing; and the steps
\* that call it (check and the protected routes) leave pending_link_codes
\* as it was.
C23_GetSessionFrame ==
    /\ [](\A h \in TokenHeaders :
             LET after == SessionsAfterGet(sessions, h, now)
             IN  /\ SessionFound(sessions, h, now) => after = sessions
                 /\ (~HasToken(h) \/ h.value \notin DOMAIN sessions)
                        => after = sessions
                 /\ SessionExpired(sessions, h, now) =>
                        /\ DOMAIN after = DOMAIN sessions \ {h.value}
                        /\ \A k \in DOMAIN after : after[k] = sessions[k])
    /\ [][\/ pending_link_codes' = pending_link_codes
          \/ ~ \/ \E h \in TokenHeaders : CheckSession(h)
               \/ \E rt \in ReadRoutes, h \in SentHeaders : ReadRoute(rt, h)
               \/ \E rt \in MailRoutes, h \in SentHeaders, m \in SentMailIds,
                     up \in BOOLEAN : MailRoute(rt, h, m, up)]_vars

\* an expired session and a valid one are in the dict together, and a code
\* is pending
C23_Witness ==
    /\ \E k \in DOMAIN sessions : SessionExpired(sessions, Header(k), now)
    /\ \E k \in DOMAIN sessions : SessionFound(sessions, Header(k), now)
    /\ DOMAIN pending_link_codes # {}

\* C24: the sessions ever created (minted) are never more than the calls of
\* generate_link_code, every record in sessions carries a minted token, and
\* a step that adds a record to sessions is a POST /api/auth/link that is
\* answered 200, takes a code that is pending out of pending_link_codes and
\* adds that one record: no issue, lookup, check, logout or failed
\* redemption adds a session.
C24_SessionsOnlyFromRedemptions ==
    /\ [](/\ minted <= hist.calls
          /\ DOMAIN sessions \subseteq {TokenOf(n) : n \in 1..minted})
    /\ [][\/ DOMAIN sessions' \subseteq DOMAIN sessions
          \/ \E b \in LinkBodies :
                /\ VerifyLinkCode(b)
                /\ LinkResponse(pending_link_codes, b, now,
                                TokenOf(minted + 1)).status = 200
                /\ LinkCodeOf(b) \in DOMAIN pending_link_codes
                /\ LinkCodeOf(b) \notin DOMAIN pending_link_codes'
                /\ DOMAIN sessions' \ DOMAIN sessions = {TokenOf(minted + 1)}
                /\ minted' = minted + 1
                /\ hist' = hist]_vars

\* every code that was issued has been redeemed: as many sessions created
\* as calls made, and more than one
C24_Witness ==
    /\ minted = hist.calls
    /\ minted >= 2
    /\ Cardinality(DOMAIN sessions) = minted

\* C25: generate_link_code for the identity i, whatever code it draws, leaves
\* every unexpired code that is pending for another identity in
\* pending_link_codes, with the data it had.
C25_OtherIdentitiesKept ==
    \A i \in DiscordIds, c \in Codes :
        LET after == PendingAfterGenerate(pending_link_codes, i,
                                          UsernameOf(i), c, now)
        IN  \A k \in DOMAIN pending_link_codes :
                (pending_link_codes[k].discord_id # i
                   /\ ~(pending_link_codes[k].expires_at < now))
                  => (k \in DOMAIN after /\ after[k] = pending_link_codes[k])

\* C26: a POST /api/auth/link that is answered 400 or 401 leaves sessions
\* as it was and leaves every pending code whose deadline has not passed
\* in pending_link_codes with the data it had; the entries it removes are
\* codes whose deadline has passed, and it adds none.
C26_FailedRedemptionKeepsValid ==
    \A b \in LinkBodies :
        LET r == LinkResponse(pending_link_codes, b, now, TokenOf(minted + 1))
            after == PendingAfterLink(pending_link_codes, b, now)
        IN  r.status \in {400, 401} =>
                /\ SessionsAfterLink(sessions, pending_link_codes, b, now,
                                     TokenOf(minted + 1)) = sessions
                /\ DOMAIN after \subseteq DOMAIN pending_link_codes
                /\ \A c \in DOMAIN pending_link_codes :
                      IF c \in DOMAIN after
                      THEN after[c] = pending_link_codes[c]
                      ELSE pending_link_codes[c].expires_at < now

\* a handler is about to read its body while a code is in the dict and
\* expired (its attempt is answered 401 and the cleanup removes it), a
\* session is there, and a body without a code is answered 400
C26_Witness ==
    /\ reading > 0
    /\ \E c \in DOMAIN pending_link_codes :
          /\ pending_link_codes[c].expires_at < now
          /\ LinkResponse(pending_link_codes, CodeBody(c), now,
                          TokenOf(minted + 1)).status = 401
          /\ c \notin DOMAIN PendingAfterLink(pending_link_codes, CodeBody(c), now)
    /\ \E b \in LinkBodies :
          LinkResponse(pending_link_codes, b, now, TokenOf(minted + 1)).status = 400
    /\ DOMAIN sessions # {}

\* C27: a logout with the token t leaves every other session as it was; a
\* POST /api/auth/link that succeeds leaves every session whose deadline has
\* not passed as it was, those of the redeeming identity included, and adds
\* its own; and generate_link_code leaves sessions as it was.
C27_SessionsIndependent ==
    /\ [](\A h \in TokenHeaders :
             LET after == SessionsAfterLogout(sessions, h)
             IN  \A k \in DOMAIN sessions :
                     k # h.value => (k \in DOMAIN after /\ after[k] = sessions[k]))
    /\ [](\A b \in LinkBodies :
             LinkSucceeds(pending_link_codes, b, now) =>
                 LET after == SessionsAfterLink(sessions, pending_link_codes, b,
                                                now, TokenOf(minted + 1))
                 IN  /\ TokenOf(minted + 1) \in DOMAIN after
                     /\ \A k \in DOMAIN sessions :
                           ~(sessions[k].expires_at < now) =>
                               (k \in DOMAIN after /\ after[k] = sessions[k]))
    /\ [][(\E i \in DiscordIds, c \in Codes :
              GenerateLinkCode(i, UsernameOf(i), c))
            => sessions' = sessions]_vars

\* one identity holds two sessions that are both valid
C27_Witness ==
    \E k1 \in DOMAIN sessions, k2 \in DOMAIN sessions :
        /\ k1 # k2
        /\ sessions[k1].discord_id = sessions[k2].discord_id
        /\ SessionFound(sessions, Header(k1), now)
        /\ SessionFound(sessions, Header(k2), now)

---------------------------------------------------------------------------
(* The public leaderboard *)

\* C28: for every limit query that int() accepts - zero and negative values
\* included - the list GET /api/public/leaderboard sends has at most 20
\* entries.
C28_LeaderboardAtMost20 ==
    \A q \in QueryLimits, up \in BOOLEAN :
        ~RaisesValueError(q) =>
            LET r == PublicResponse("leaderboard", q, db, up)
            IN  r.status = 200 => Len(r.body.leaderboard) <= 20

===========================================================================
